---- MODULE Spec2Model ----
(***************************************************************************)
(* nyx: a small no_std implementation of TOTP (RFC 6238) over HMAC-SHA1.   *)
(*                                                                         *)
(* The crate is a set of pure functions over a Copy struct:                *)
(*   Totp::options / Totp::new, Totp::sign, Totp::generate, Totp::verify,  *)
(*   and the convenience functions generate / verify.                      *)
(*                                                                         *)
(* Values are modelled at their Rust widths.  A u64 is the sequence of its *)
(* 8 big-endian bytes (what to_be_bytes yields), a u32 code is a natural   *)
(* number below 2^31, a u8 is a natural number below 256.  Arithmetic      *)
(* that can overflow follows the build: with overflow checks (the debug    *)
(* and test profiles) the operation panics, without them (the release      *)
(* profile) it wraps.  A division by zero panics in every build.           *)
(***************************************************************************)
EXTENDS Integers, Sequences, FiniteSets

(***************************************************************************)
(* Bytes and bitwise operations                                            *)
(***************************************************************************)
Byte == 0..255

RECURSIVE BitXor(_, _, _)
BitXor(a, b, n) ==
    IF n = 0 THEN 0
    ELSE ((a + b) % 2) + 2 * BitXor(a \div 2, b \div 2, n - 1)

RECURSIVE BitAnd(_, _, _)
BitAnd(a, b, n) ==
    IF n = 0 THEN 0
    ELSE ((a % 2) * (b % 2)) + 2 * BitAnd(a \div 2, b \div 2, n - 1)

XorByte == [a \in Byte |-> [b \in Byte |-> BitXor(a, b, 8)]]
AndByte == [a \in Byte |-> [b \in Byte |-> BitAnd(a, b, 8)]]

Xor16(a, b) == XorByte[a \div 256][b \div 256] * 256 + XorByte[a % 256][b % 256]
And16(a, b) == AndByte[a \div 256][b \div 256] * 256 + AndByte[a % 256][b % 256]

Zeros(n) == [i \in 1..n |-> 0]

(***************************************************************************)
(* SHA-1 (the sha1 crate).  A 32-bit word is the pair <<hi, lo>> of its    *)
(* 16-bit halves.                                                          *)
(***************************************************************************)
WXor(x, y) == <<Xor16(x[1], y[1]), Xor16(x[2], y[2])>>
WAnd(x, y) == <<And16(x[1], y[1]), And16(x[2], y[2])>>
WNot(x) == <<65535 - x[1], 65535 - x[2]>>
WOr(x, y) == WNot(WAnd(WNot(x), WNot(y)))
WAdd(x, y) ==
    LET lo == x[2] + y[2]
        hi == x[1] + y[1] + (lo \div 65536)
    IN <<hi % 65536, lo % 65536>>

\* rotate left by n bits, 0 < n < 16
RotlSmall(x, n) ==
    <<((x[1] * (2 ^ n)) % 65536) + (x[2] \div (2 ^ (16 - n))),
      ((x[2] * (2 ^ n)) % 65536) + (x[1] \div (2 ^ (16 - n)))>>

Rotl(x, n) ==
    IF n = 16 THEN <<x[2], x[1]>>
    ELSE IF n < 16 THEN RotlSmall(x, n)
    ELSE RotlSmall(<<x[2], x[1]>>, n - 16)

\* 67452301 EFCDAB89 98BADCFE 10325476 C3D2E1F0
Sha1H0 ==
    << <<26437, 8961>>, <<61389, 43913>>, <<39098, 56574>>,
       <<4146, 21622>>, <<50130, 57840>> >>

\* 5A827999 6ED9EBA1 8F1BBCDC CA62C1D6
Sha1K(t) ==
    IF t < 20 THEN <<23170, 31129>>
    ELSE IF t < 40 THEN <<28377, 60321>>
    ELSE IF t < 60 THEN <<36635, 48348>>
    ELSE <<51810, 49622>>

Sha1F(t, b, c, d) ==
    IF t < 20 THEN WOr(WAnd(b, c), WAnd(WNot(b), d))
    ELSE IF t < 40 THEN WXor(WXor(b, c), d)
    ELSE IF t < 60 THEN WOr(WOr(WAnd(b, c), WAnd(b, d)), WAnd(c, d))
    ELSE WXor(WXor(b, c), d)

\* a 64-byte block as 16 big-endian words
BlockWords(blk) ==
    [i \in 1..16 |-> <<blk[4*i - 3] * 256 + blk[4*i - 2], blk[4*i - 1] * 256 + blk[4*i]>>]

RECURSIVE Schedule(_)
Schedule(w) ==
    IF Len(w) = 80 THEN w
    ELSE LET t == Len(w) + 1
         IN Schedule(Append(w,
                Rotl(WXor(WXor(w[t - 3], w[t - 8]), WXor(w[t - 14], w[t - 16])), 1)))

\* round t (0..79) on the working state s = <<a, b, c, d, e>>
Round(s, w, t) ==
    <<WAdd(WAdd(WAdd(Rotl(s[1], 5), Sha1F(t, s[2], s[3], s[4])),
                WAdd(s[5], Sha1K(t))), w[t + 1]),
      s[1], Rotl(s[2], 30), s[3], s[4]>>

RECURSIVE Rounds(_, _, _)
Rounds(s, w, t) ==
    IF t = 80 \/ Len(s) # 5 THEN s
    ELSE Rounds(Round(s, w, t), w, t + 1)

AddState(h, s) == [i \in 1..5 |-> WAdd(h[i], s[i])]

Compress(h, blk) == AddState(h, Rounds(h, Schedule(BlockWords(blk)), 0))

\* a length in bits as 8 big-endian bytes (lengths below 2^20 bytes)
LenBytes(n) ==
    <<0, 0, 0, 0, 0, (n * 8) \div 65536, ((n * 8) \div 256) % 256, (n * 8) % 256>>

\* the padding of a message of n bytes: 0x80, zeros, the bit length
Padding(n) == <<128>> \o Zeros((119 - (n % 64)) % 64) \o LenBytes(n)

RECURSIVE Blocks(_, _)
Blocks(h, m) ==
    IF Len(m) = 0 THEN h
    ELSE Blocks(Compress(h, SubSeq(m, 1, 64)), SubSeq(m, 65, Len(m)))

WordBytes(x) == <<x[1] \div 256, x[1] % 256, x[2] \div 256, x[2] % 256>>

\* the digest of a message whose first `done` bytes (whole blocks) have been
\* compressed into h and whose remaining bytes are rest
StateBytes(f) ==
    WordBytes(f[1]) \o WordBytes(f[2]) \o WordBytes(f[3])
        \o WordBytes(f[4]) \o WordBytes(f[5])

Sha1Finish(h, done, rest) == StateBytes(Blocks(h, rest \o Padding(done + Len(rest))))

Sha1(msg) == Sha1Finish(Sha1H0, 0, msg)

(***************************************************************************)
(* HMAC (RFC 2104, the hmac crate) over SHA-1.  new_varkey accepts a key   *)
(* of any length (a key longer than the 64-byte block is hashed first) and *)
(* absorbs the two padded key blocks; finalize hashes the message under    *)
(* the inner state and that digest under the outer one.                    *)
(***************************************************************************)
\* a key of at most 64 bytes padded with zeros to the block size
KeyBlock(k0) == k0 \o Zeros(64 - Len(k0))

\* the states after the ipad (0x36) and the opad (0x5c) block
KeyStates(kb) ==
    [inner |-> Compress(Sha1H0, [i \in 1..64 |-> XorByte[kb[i]][54]]),
     outer |-> Compress(Sha1H0, [i \in 1..64 |-> XorByte[kb[i]][92]])]

HmacNewVarkey(k) == KeyStates(KeyBlock(IF Len(k) > 64 THEN Sha1(k) ELSE k))

HmacFinalize(mac, msg) ==
    Sha1Finish(mac.outer, 64, Sha1Finish(mac.inner, 64, msg))

HmacSha1(k, msg) == HmacFinalize(HmacNewVarkey(k), msg)

(***************************************************************************)
(* u64 arithmetic on 8 big-endian bytes.  Every operation yields the       *)
(* wrapped 64-bit result and whether the exact result left the range.      *)
(* Sums and differences are taken over the four 16-bit limbs, products     *)
(* over the bytes, so that every intermediate value stays below 2^31.      *)
(***************************************************************************)
U64Zero == Zeros(8)
U64MaxValue == [i \in 1..8 |-> 255]

\* the u64 of a natural number below 2^31
U64(n) ==
    <<0, 0, 0, 0, n \div 16777216, (n \div 65536) % 256, (n \div 256) % 256, n % 256>>

\* the i-th 16-bit limb of 8 bytes, i in 1..4, most significant first
Limb(a, i) == a[2 * i - 1] * 256 + a[2 * i]

\* the bytes of a sequence of 16-bit limbs
LimbBytes(l) == [i \in 1..(2 * Len(l)) |->
                    IF i % 2 = 1 THEN l[(i + 1) \div 2] \div 256 ELSE l[i \div 2] % 256]

U64Add(a, b) ==
    LET s4 == Limb(a, 4) + Limb(b, 4)
        s3 == Limb(a, 3) + Limb(b, 3) + (s4 \div 65536)
        s2 == Limb(a, 2) + Limb(b, 2) + (s3 \div 65536)
        s1 == Limb(a, 1) + Limb(b, 1) + (s2 \div 65536)
    IN [val |-> LimbBytes(<<s1 % 65536, s2 % 65536, s3 % 65536, s4 % 65536>>),
        overflow |-> s1 >= 65536]

Borrow(d) == IF d < 0 THEN 1 ELSE 0

U64Sub(a, b) ==
    LET d4 == Limb(a, 4) - Limb(b, 4)
        d3 == Limb(a, 3) - Limb(b, 3) - Borrow(d4)
        d2 == Limb(a, 2) - Limb(b, 2) - Borrow(d3)
        d1 == Limb(a, 1) - Limb(b, 1) - Borrow(d2)
    IN [val |-> LimbBytes(<<(d1 + 65536) % 65536, (d2 + 65536) % 65536,
                            (d3 + 65536) % 65536, (d4 + 65536) % 65536>>),
        overflow |-> d1 < 0]

\* a < b for two sequences of the same length, most significant first
Less(a, b) ==
    \E i \in 1..Len(a) : a[i] < b[i] /\ \A j \in 1..(i - 1) : a[j] = b[j]

LessEq(a, b) == ~Less(b, a)

\* column k (2..16) of the schoolbook product of two 8-byte numbers: the sum of
\* the byte products a[i] * b[k - i], of weight 256^(16 - k)
Term(a, b, i, k) == IF k - i >= 1 /\ k - i <= 8 THEN a[i] * b[k - i] ELSE 0

Column(a, b, k) ==
    Term(a, b, 1, k) + Term(a, b, 2, k) + Term(a, b, 3, k) + Term(a, b, 4, k)
        + Term(a, b, 5, k) + Term(a, b, 6, k) + Term(a, b, 7, k) + Term(a, b, 8, k)

\* the exact 16-byte product: carry[k] is the carry out of the columns from k on
Product(a, b) ==
    LET cols == [k \in 1..16 |-> Column(a, b, k)]
        carry[k \in 1..17] ==
            IF k = 17 THEN 0 ELSE (cols[k] + carry[k + 1]) \div 256
    IN [k \in 1..16 |-> (cols[k] + carry[k + 1]) % 256]

U64Mul(a, b) ==
    LET p == Product(a, b)
    IN [val |-> SubSeq(p, 9, 16), overflow |-> SubSeq(p, 1, 8) # Zeros(8)]

\* b * m as five 16-bit limbs, for 8 bytes b and a byte m
MulByte(b, m) ==
    LET p4 == Limb(b, 4) * m
        p3 == Limb(b, 3) * m + (p4 \div 65536)
        p2 == Limb(b, 2) * m + (p3 \div 65536)
        p1 == Limb(b, 1) * m + (p2 \div 65536)
    IN <<p1 \div 65536, p1 % 65536, p2 % 65536, p3 % 65536, p4 % 65536>>

\* r * 256 + x as five limbs, for five limbs r below 2^64 and a byte x
ShiftIn(r, x) ==
    <<(r[1] % 256) * 256 + (r[2] \div 256), (r[2] % 256) * 256 + (r[3] \div 256),
      (r[3] % 256) * 256 + (r[4] \div 256), (r[4] % 256) * 256 + (r[5] \div 256),
      (r[5] % 256) * 256 + x>>

\* x - y over five limbs, for y <= x
Sub5(x, y) ==
    LET d5 == x[5] - y[5]
        d4 == x[4] - y[4] - Borrow(d5)
        d3 == x[3] - y[3] - Borrow(d4)
        d2 == x[2] - y[2] - Borrow(d3)
        d1 == x[1] - y[1] - Borrow(d2)
    IN <<d1, (d2 + 65536) % 65536, (d3 + 65536) % 65536,
         (d4 + 65536) % 65536, (d5 + 65536) % 65536>>

\* the largest digit d + x, x below 2 * bit, with (d + x) * b <= r
RECURSIVE QuotDigit(_, _, _, _)
QuotDigit(r, b, d, bit) ==
    IF bit = 0 THEN d
    ELSE IF LessEq(MulByte(b, d + bit), r)
         THEN QuotDigit(r, b, d + bit, bit \div 2)
         ELSE QuotDigit(r, b, d, bit \div 2)

\* long division in base 256: the bytes a[i..8] are still to be brought down,
\* r (five limbs, below b) is the running remainder, q the quotient digits so far
RECURSIVE DivFrom(_, _, _, _, _)
DivFrom(a, b, i, r, q) ==
    IF i > 8 THEN q
    ELSE LET r1 == ShiftIn(r, a[i])
             d == QuotDigit(r1, b, 0, 128)
         IN IF d = 0 THEN DivFrom(a, b, i + 1, r1, Append(q, 0))
            ELSE DivFrom(a, b, i + 1, Sub5(r1, MulByte(b, d)), Append(q, d))

\* long division by a divisor n below 2^23, whose running remainder fits a
\* machine integer: rem[i] is the remainder after the first i bytes of a
DivSmall(a, n) ==
    LET rem[i \in 0..8] == IF i = 0 THEN 0 ELSE (rem[i - 1] * 256 + a[i]) % n
    IN [i \in 1..8 |-> (rem[i - 1] * 256 + a[i]) \div n]

\* floor(a / b) for b # 0
U64Div(a, b) ==
    IF SubSeq(b, 1, 5) = Zeros(5) /\ b[6] < 128
    THEN DivSmall(a, b[6] * 65536 + b[7] * 256 + b[8])
    ELSE DivFrom(a, b, 1, Zeros(5), <<>>)

(***************************************************************************)
(* u32 arithmetic of Totp::generate.  10^digits is kept as 4 big-endian    *)
(* bytes: the wrapped power and whether a multiplication overflowed.       *)
(***************************************************************************)
Pow10Step(acc) ==
    LET m == MulByte(Zeros(4) \o acc.val, 10)
    IN [val |-> LimbBytes(<<m[4], m[5]>>), overflow |-> acc.overflow \/ m[3] # 0]

\* acc * 10^n; a power that has wrapped to 0 stays 0
RECURSIVE Pow10From(_, _)
Pow10From(acc, n) ==
    IF n = 0 \/ acc.val = <<0, 0, 0, 0>> THEN acc
    ELSE Pow10From(Pow10Step(acc), n - 1)

\* (10 as u32).pow(exp)
U32Pow10(exp) == Pow10From([val |-> <<0, 0, 0, 1>>, overflow |-> FALSE], exp)

\* data % m for data below 2^31 and m # 0
U32Rem(data, m) ==
    IF m[1] >= 128 THEN data
    ELSE data % (m[1] * 16777216 + m[2] * 65536 + m[3] * 256 + m[4])

\* BigEndian::read_u32(buf) & 0x7fff_ffff
ReadU31(buf) ==
    AndByte[buf[1]][127] * 16777216 + buf[2] * 65536 + buf[3] * 256 + buf[4]

(***************************************************************************)
(* struct Totp and its constructors                                        *)
(***************************************************************************)
Totp_options(digits, skew, step) == [digits |-> digits, skew |-> skew, step |-> step]

\* Totp::new with the digit count of the crate's test in place of 6
Totp_new_digits8 == Totp_options(8, 1, U64(30))

Totp_new == Totp_options(6, 1, U64(30))

Totp_default == Totp_new

\* the counter signed for a time: time / self.step, for self.step # 0
Counter(self, time) == U64Div(time, self.step)

(***************************************************************************)
(* Inputs                                                                  *)
(***************************************************************************)
MaxSkew == 2
MaxDigits == 10
MaxSlot == 2

\* b"12345678901234567890", the key of the RFC 6238 vectors, and the empty key
RfcKey == <<49, 50, 51, 52, 53, 54, 55, 56, 57, 48, 49, 50, 51, 52, 53, 54, 55, 56, 57, 48>>
Keys == {RfcKey, <<>>}

\* skews up to MaxSkew, and 128, where skew * 2 + 1 leaves the u8 range
Skews == (0..MaxSkew) \cup {128}

\* digit counts up to and beyond 9, and 32, where 10^digits wraps to 0
Digits == {0, 6, 8} \cup (9..MaxDigits) \cup {32}

Steps == {U64Zero, U64(30), U64(60)}

\* Totp values: the default one with another digit count, another skew or
\* another step
Configs ==
    {Totp_options(d, 1, U64(30)) : d \in Digits}
        \cup {Totp_options(6, s, U64(30)) : s \in Skews}
        \cup {Totp_options(6, 1, st) : st \in Steps}

\* times around the first 30-second slot boundaries, a time beyond 2^32 (the
\* last RFC 6238 vector) and the top of the u64 range
SlotTimes == {U64(s * 30 + d) : s \in 0..MaxSlot, d \in {0, 1, 29}}
RfcTimes == {<<0, 0, 0, 4, 168, 23, 200, 0>>}
TopTimes == {U64MaxValue}
Times == SlotTimes \cup RfcTimes \cup TopTimes

\* a verifier's clock relative to the time a code was issued for
Shifts == {0, 30, 61}

\* tokens presented without having been issued: the RFC 6238 code for time 59
\* at 6 digits and a value no 6-digit code can take
Tokens == {287082, 1000000}

(***************************************************************************)
(* The digests of the keys and counters the inputs above lead to are       *)
(* computed once; Hmac is HmacSha1 on every argument.                      *)
(***************************************************************************)
ClockTimes ==
    Times
        \cup {U64Add(t, U64(d)).val : t \in Times, d \in Shifts}
        \cup {U64Sub(t, U64(d)).val : t \in Times, d \in Shifts}

\* the counters Totp::verify signs when no probe matches and nothing panics
WindowCounters(self, time) ==
    {Counter(self,
             U64Mul(U64Add(U64Sub(Counter(self, time), U64(self.skew)).val,
                           U64(i)).val,
                    self.step).val) : i \in 0..((self.skew * 2) % 256)}

\* the windows of the Totp values above and of their other skews
Windows == {Totp_options(6, s, st) : s \in Skews, st \in Steps \ {U64Zero}}

MemoCounters ==
    UNION {{Counter(c, t)} \cup WindowCounters(c, t) : c \in Windows, t \in ClockTimes}

KeyMemo == [k \in Keys |-> HmacNewVarkey(k)]

HmacMemo == [k \in Keys |-> [c \in MemoCounters |-> HmacFinalize(KeyMemo[k], c)]]

Hmac(k, msg) ==
    IF k \in Keys /\ msg \in MemoCounters THEN HmacMemo[k][msg] ELSE HmacSha1(k, msg)

(***************************************************************************)
(* The state: one build, one Totp value and one key, fixed at the start;   *)
(* then calls of the public functions.  call is the last call made, ret    *)
(* what it returned (or the panic that ended it), issued the code the last *)
(* successful Totp::generate handed out.                                   *)
(***************************************************************************)
VARIABLES overflow_checks, totp, key, call, ret, issued

vars == <<overflow_checks, totp, key, call, ret, issued>>

NoPanic == ""
DivideByZero == "attempt to divide by zero"
RemainderByZero == "attempt to calculate the remainder with a divisor of zero"
AddOverflow == "attempt to add with overflow"
SubOverflow == "attempt to subtract with overflow"
MulOverflow == "attempt to multiply with overflow"

Returned(r) == r.panic = NoPanic
Panicked(msg) == [panic |-> msg, code |-> 0, ok |-> FALSE, probes |-> <<>>]

(***************************************************************************)
(* impl Totp                                                               *)
(***************************************************************************)
Totp_sign(self, k, time) ==
    IF self.step = U64Zero THEN [panic |-> DivideByZero, hash |-> <<>>]
    ELSE [panic |-> NoPanic, hash |-> Hmac(k, Counter(self, time))]

\* the dynamic truncation: 31 bits of the hash at the offset its last byte names
Truncate(hash) ==
    ReadU31(SubSeq(hash, AndByte[hash[20]][15] + 1, AndByte[hash[20]][15] + 4))

\* Modulo without the reduction: the truncated 31 bits handed out as they are
Modulo_unreduced(data, pow) ==
    IF pow.overflow /\ overflow_checks THEN Panicked(MulOverflow)
    ELSE IF pow.val = <<0, 0, 0, 0>> THEN Panicked(RemainderByZero)
    ELSE [panic |-> NoPanic, code |-> data, ok |-> FALSE, probes |-> <<>>]

\* data % (10 as u32).pow(digits), pow being what U32Pow10 yields
Modulo(data, pow) ==
    IF pow.overflow /\ overflow_checks THEN Panicked(MulOverflow)
    ELSE IF pow.val = <<0, 0, 0, 0>> THEN Panicked(RemainderByZero)
    ELSE [panic |-> NoPanic, code |-> U32Rem(data, pow.val), ok |-> FALSE, probes |-> <<>>]

\* the body of Totp::generate after self.sign
Truncated(self, signed) ==
    IF ~Returned(signed) THEN Panicked(signed.panic)
    ELSE Modulo(Truncate(signed.hash), U32Pow10(self.digits))

Totp_generate(self, k, time) == Truncated(self, Totp_sign(self, k, time))

\* the loop of Totp::verify from iteration i on; probes are the step_time
\* values handed to generate so far
RECURSIVE VerifyLoop(_, _, _, _, _, _, _)

\* the comparison of a generated code with the token, and the next iteration
Compare(self, k, token, offset, i, end, probed, gen) ==
    IF ~Returned(gen) THEN [Panicked(gen.panic) EXCEPT !.probes = probed]
    ELSE IF gen.code = token
        THEN [panic |-> NoPanic, code |-> 0, ok |-> TRUE, probes |-> probed]
    ELSE VerifyLoop(self, k, token, offset, i + 1, end, probed)

VerifyLoop(self, k, token, offset, i, end, probes) ==
    IF i >= end THEN [panic |-> NoPanic, code |-> 0, ok |-> FALSE, probes |-> probes]
    ELSE LET sum == U64Add(offset, U64(i))
             prod == U64Mul(sum.val, self.step)
         IN IF sum.overflow /\ overflow_checks
                THEN [Panicked(AddOverflow) EXCEPT !.probes = probes]
            ELSE IF prod.overflow /\ overflow_checks
                THEN [Panicked(MulOverflow) EXCEPT !.probes = probes]
            ELSE Compare(self, k, token, offset, i, end, Append(probes, prod.val),
                         Totp_generate(self, k, prod.val))

\* Totp::verify with the window starting skew * 2 steps back and ending at
\* the current step
Totp_verify_back(self, k, time, token) ==
    LET offset == U64Sub(Counter(self, time), U64(self.skew * 2))
        twice == self.skew * 2
        end == (twice % 256) + 1
    IN IF self.step = U64Zero THEN Panicked(DivideByZero)
       ELSE IF offset.overflow /\ overflow_checks THEN Panicked(SubOverflow)
       ELSE IF twice > 255 /\ overflow_checks THEN Panicked(MulOverflow)
       ELSE IF end > 255 /\ overflow_checks THEN Panicked(AddOverflow)
       ELSE VerifyLoop(self, k, token, offset.val, 0, end % 256, <<>>)

Totp_verify(self, k, time, token) ==
    LET offset == U64Sub(Counter(self, time), U64(self.skew))
        twice == self.skew * 2
        end == (twice % 256) + 1
    IN IF self.step = U64Zero THEN Panicked(DivideByZero)
       ELSE IF offset.overflow /\ overflow_checks THEN Panicked(SubOverflow)
       ELSE IF twice > 255 /\ overflow_checks THEN Panicked(MulOverflow)
       ELSE IF end > 255 /\ overflow_checks THEN Panicked(AddOverflow)
       ELSE VerifyLoop(self, k, token, offset.val, 0, end % 256, <<>>)

(***************************************************************************)
(* The convenience functions                                               *)
(***************************************************************************)
verify(k, time, token) == Totp_verify(Totp_new, k, time, token)

generate(k, time) == Totp_generate(Totp_new, k, time)

(***************************************************************************)
(* The state machine.  The functions are pure and a Totp is Copy: nothing  *)
(* carries over from one call to the next except what the caller keeps.    *)
(* A behaviour is therefore one session of a caller: a call of one of the  *)
(* public functions and, when that call issued a code, the presentation of *)
(* that code to Totp::verify.                                              *)
(***************************************************************************)
NoCall == [op |-> "none", time |-> U64Zero, token |-> 0]
NoCode == [valid |-> FALSE, time |-> U64Zero, code |-> 0]

Init ==
    /\ overflow_checks \in BOOLEAN
    /\ totp \in Configs
    /\ key \in Keys
    /\ call = NoCall
    /\ ret = Panicked(NoPanic)
    /\ issued = NoCode

\* totp.generate(key, t); the code is kept to be presented later
TotpGenerate(t) ==
    /\ call = NoCall
    /\ call' = [op |-> "Totp::generate", time |-> t, token |-> 0]
    /\ ret' = Totp_generate(totp, key, t)
    /\ issued' = IF Returned(ret') THEN [valid |-> TRUE, time |-> t, code |-> ret'.code]
                 ELSE issued
    /\ UNCHANGED <<overflow_checks, totp, key>>

\* totp.verify(key, t, tok)
TotpVerify(t, tok) ==
    /\ call' = [op |-> "Totp::verify", time |-> t, token |-> tok]
    /\ ret' = Totp_verify(totp, key, t, tok)
    /\ UNCHANGED <<overflow_checks, totp, key, issued>>

\* the issued code presented at a clock ahead of, or behind, its time
VerifyIssuedLater(d) ==
    /\ call.op = "Totp::generate"
    /\ issued.valid
    /\ ~U64Add(issued.time, U64(d)).overflow
    /\ TotpVerify(U64Add(issued.time, U64(d)).val, issued.code)

VerifyIssuedEarlier(d) ==
    /\ call.op = "Totp::generate"
    /\ issued.valid
    /\ ~U64Sub(issued.time, U64(d)).overflow
    /\ TotpVerify(U64Sub(issued.time, U64(d)).val, issued.code)

\* a token presented that was never issued
VerifyOther(t, tok) ==
    /\ call = NoCall
    /\ TotpVerify(t, tok)

\* nyx::generate(key, t)
Generate(t) ==
    /\ call = NoCall
    /\ call' = [op |-> "generate", time |-> t, token |-> 0]
    /\ ret' = generate(key, t)
    /\ UNCHANGED <<overflow_checks, totp, key, issued>>

\* nyx::verify(key, t, tok)
Verify(t, tok) ==
    /\ call = NoCall
    /\ call' = [op |-> "verify", time |-> t, token |-> tok]
    /\ ret' = verify(key, t, tok)
    /\ UNCHANGED <<overflow_checks, totp, key, issued>>

Next ==
    \/ \E t \in Times : TotpGenerate(t)
    \/ \E d \in Shifts : VerifyIssuedLater(d)
    \/ \E d \in Shifts : VerifyIssuedEarlier(d)
    \/ \E t \in Times, tok \in Tokens : VerifyOther(t, tok)
    \/ \E t \in Times : Generate(t)
    \/ \E t \in Times, tok \in Tokens : Verify(t, tok)

Spec == Init /\ [][Next]_vars

(***************************************************************************)
(* The claims.  In a state reached by a call, call names the function and  *)
(* its arguments and ret holds the outcome; a verify that follows a        *)
(* Totp::generate presents the issued code.                                *)
(***************************************************************************)
TotpCall == call.op \in {"Totp::generate", "Totp::verify"}

\* the issued code is being verified at the clock issued.time + d / - d
PresentedLater(d) ==
    /\ call.op = "Totp::verify"
    /\ issued.valid
    /\ U64Add(issued.time, U64(d)) = [val |-> call.time, overflow |-> FALSE]

PresentedEarlier(d) ==
    /\ call.op = "Totp::verify"
    /\ issued.valid
    /\ U64Sub(issued.time, U64(d)) = [val |-> call.time, overflow |-> FALSE]

\* the time steps of the probes a verify made
ProbedCounters == {Counter(totp, ret.probes[j]) : j \in 1..Len(ret.probes)}

\* C1: self-verification.  With 1 <= digits <= 9 and step > 0 (any skew), the
\* code generate(key, time) handed out is accepted by verify(key, time, code)
\* under the same configuration.
C1_SelfVerification ==
    (PresentedLater(0) /\ totp.digits \in 1..9 /\ totp.step # U64Zero) => ret.ok

\* C2: range.  Whatever generate returns is a code in [0, 10^digits).  A code
\* is read from 31 bits, so it is below 2^31 < 10^10: for digits > 9 the upper
\* bound holds of every u32.
C2_Range ==
    /\ (call.op = "Totp::generate" /\ Returned(ret))
          => /\ ret.code >= 0
             /\ totp.digits <= 9 => ret.code < 10 ^ totp.digits
    /\ (call.op = "generate" /\ Returned(ret))
          => (ret.code >= 0 /\ ret.code < 10 ^ 6)

\* an 8-digit code that needs all its digits, and the convenience function's code
C2_Witness ==
    \/ call.op = "Totp::generate" /\ Returned(ret) /\ totp.digits = 8
          /\ ret.code >= 10 ^ 7
    \/ call.op = "generate" /\ Returned(ret) /\ ret.code >= 10 ^ 5

\* C3: window acceptance.  With skew = 1 and step = 30 the code generate(key, T)
\* is accepted by verify at time T + 30 and at time T - 30, whenever that time
\* is a u64.
C3_WindowAcceptance ==
    (/\ totp.skew = 1
     /\ totp.step = U64(30)
     /\ totp.digits \in 1..9
     /\ PresentedLater(30) \/ PresentedEarlier(30)) => ret.ok

\* C4: window rejection.  With skew = 1 and step = 30, verify at time T + 61 or
\* T - 61 never probes the time step floor(T / 30) of a code issued at T.
C4_WindowRejection ==
    (/\ totp.skew = 1
     /\ totp.step = U64(30)
     /\ PresentedLater(61) \/ PresentedEarlier(61))
        => Counter(totp, issued.time) \notin ProbedCounters

\* a verify 61 seconds late that went through its three probes and refused
C4_Witness ==
    /\ totp.skew = 1
    /\ totp.step = U64(30)
    /\ totp.digits = 6
    /\ PresentedLater(61)
    /\ Returned(ret)
    /\ ~ret.ok
    /\ Len(ret.probes) = 3

\* C5: underflow.  When floor(time / step) < skew, verify has a defined outcome
\* and probes no time step greater than floor(time / step) + skew.
C5_NoWrappedWindow ==
    (/\ call.op = "Totp::verify"
     /\ totp.step # U64Zero
     /\ totp.digits \in 1..9
     /\ Less(Counter(totp, call.time), U64(totp.skew)))
        => /\ Returned(ret)
           /\ \A c \in ProbedCounters :
                 LessEq(c, U64Add(Counter(totp, call.time), U64(totp.skew)).val)

\* C6: a Totp with digits > 9 is rejected: neither generate nor verify returns
\* a code or a match computed from a wrapped 10^digits.
C6_DigitsRejected ==
    (TotpCall /\ totp.digits > 9) => ~Returned(ret)

\* C7: a Totp with step = 0 is rejected before time / step is performed, in
\* generate and in verify: the call does not end in the division's panic.
C7_StepRejected ==
    (TotpCall /\ totp.step = U64Zero) => ret.panic # DivideByZero

\* C8: the convenience functions use the default configuration, which is
\* digits = 6, skew = 1, step = 30: generate(key, time) is
\* Totp::options(6, 1, 30).generate(key, time), verify(key, time, token) is
\* Totp::options(6, 1, 30).verify(key, time, token).
C8_DefaultConfig ==
    /\ Totp_new = [digits |-> 6, skew |-> 1, step |-> U64(30)]
    /\ Totp_default = [digits |-> 6, skew |-> 1, step |-> U64(30)]
    /\ call.op = "generate"
          => ret = Totp_generate(Totp_options(6, 1, U64(30)), key, call.time)
    /\ call.op = "verify"
          => ret = Totp_verify(Totp_options(6, 1, U64(30)), key, call.time, call.token)

\* RFC 6238: the key "12345678901234567890" at time 59 has the code 94287082,
\* 287082 at 6 digits; the convenience functions hand it out and accept it
C8_Witness ==
    /\ key = RfcKey
    /\ call.time = U64(59)
    /\ \/ call.op = "generate" /\ ret.code = 287082
       \/ call.op = "verify" /\ call.token = 287082 /\ ret.ok /\ Len(ret.probes) = 2

\* the window of verify stays inside the u64 range: floor(time / step) - skew
\* and (floor(time / step) + skew) * step are u64 values
WindowInRange ==
    /\ ~U64Sub(Counter(totp, call.time), U64(totp.skew)).overflow
    /\ ~U64Add(Counter(totp, call.time), U64(totp.skew)).overflow
    /\ ~U64Mul(U64Add(Counter(totp, call.time), U64(totp.skew)).val, totp.step).overflow

\* the i-th timestamp of the window, i from 0
ExpectedProbe(i) ==
    U64Mul(U64Add(U64Sub(Counter(totp, call.time), U64(totp.skew)).val, U64(i)).val,
           totp.step).val

\* C9: verify probes (floor(time / step) - skew + i) * step for i = 0 .. 2 * skew
\* in this order, returns true at the first probe whose code is the token, and
\* false only after all 2 * skew + 1 probes; stated where the window is in range.
C9_ProbeOrder ==
    (/\ call.op = "Totp::verify"
     /\ totp.step # U64Zero
     /\ totp.digits \in 1..9
     /\ WindowInRange)
        => /\ Returned(ret)
           /\ Len(ret.probes) <= 2 * totp.skew + 1
           /\ \A j \in 1..Len(ret.probes) : ret.probes[j] = ExpectedProbe(j - 1)
           /\ \A j \in 1..(Len(ret.probes) - 1) :
                 Totp_generate(totp, key, ret.probes[j]).code # call.token
           /\ ret.ok => /\ Len(ret.probes) >= 1
                        /\ Totp_generate(totp, key, ret.probes[Len(ret.probes)]).code
                              = call.token
           /\ ~ret.ok => Len(ret.probes) = 2 * totp.skew + 1

\* C10: acceptance is monotone in skew: a token verify accepts with skew s1 is
\* accepted with every skew s2 >= s1, all else equal.
C10_MonotoneInSkew ==
    (call.op = "Totp::verify" /\ ret.ok)
        => \A s2 \in Skews :
              s2 >= totp.skew
                 => Totp_verify([totp EXCEPT !.skew = s2], key, call.time, call.token).ok

====
